---- MODULE Spec2Model ----
(***************************************************************************)
(* Model of `orchestra serve` (RunServe, src/internal/plugins.go 163-364): *)
(* the supervisor's main flow, its signal-handler goroutine, the cleanup   *)
(* closure both of them call, and the external processes and files they    *)
(* act on (hub, hub children, transport, log, temp config, pid file).      *)
(*                                                                         *)
(* The two goroutines interleave at the granularity of one statement (or   *)
(* one blocking call) per step.  os.Exit ends the process at once: no      *)
(* deferred call runs and the other goroutine takes no further step.       *)
(***************************************************************************)
EXTENDS Integers, Sequences, FiniteSets, TLC

\* ---------------------------------------------------------------- bounds
MaxLogLen == 3         \* lines the hub writes to the log

\* ------------------------------------------------------ program constants
MaxPolls       == 30   \* for i := 0; i < 30; i++
ReadyThreshold == 2    \* if booted >= 2
FatalCode      == 1    \* fatal: os.Exit(1)

\* ------------------------------------------------------------ vocabulary
Threads == {"main", "handler"}

NoAddr == "none"
Addrs  == {"127.0.0.1:54321"}

\* A log line: one holding the readiness marker "registered and booted", or
\* one holding "listening on <address>".
Marker       == [kind |-> "marker", addr |-> NoAddr]
Listening(a) == [kind |-> "listen", addr |-> a]
LogLines     == {Marker} \cup {Listening(a) : a \in Addrs}

\* What exitErr.ExitCode() reports once the transport has ended: its exit
\* code, or -1 when a signal ended it.
KilledBySignal == 0 - 1
TransportCodes == {0, 1, 2, KilledBySignal}

NilCmd == [set |-> FALSE, process |-> FALSE, processState |-> FALSE]

CleanupPcs == {"cGuard", "cPkill", "cTerm", "cSleep", "cPkill9", "cKill", "cRemove"}

\* ------------------------------------------------ binaries and registry

\* A path, a repository name or a plugin id is the sequence of its segments,
\* so that all of them compare with a command's target.
Id(name) == <<name>>

\* filepath.Join(dir, name)
Join(dir, name) == Append(dir, name)

\* filepath.Base(path): the last segment
Base(path) == path[Len(path)]

\* filepath.Dir(selfPath): where the orchestra binary and its siblings are
InstallDir == <<"opt", "orchestra">>

\* pluginBinDir(): ~/.orchestra/plugins/bin
PluginBinDir == <<"home", ".orchestra", "plugins", "bin">>

\* the keys of the map bins
SiblingBins == {"orchestrator", "storage-markdown", "tools-features", "transport-stdio"}

\* filepath.Abs(*workspace)
AbsWorkspace == <<"work", "project">>

\* fmt.Sprintf("--workspace=%s", absWorkspace)
WorkspaceArg(ws) == <<"--workspace=", ws>>

\* fmt.Sprintf("--orchestrator-addr=%s", orchAddr)
OrchestratorAddrArg(a) == <<"--orchestrator-addr=", a>>

\* filepath.Abs(*certsDir)
AbsCertsDir == <<"home", ".orchestra", "certs">>

\* fmt.Sprintf("--certs-dir=%s", absCertsDir)
CertsDirArg(dir) == <<"--certs-dir=", dir>>

\* Repositories a user installs plugins from; two of them end in the same
\* segment.
Repos == { <<"github.com", "a", "tool">>,
           <<"github.com", "b", "tool">>,
           <<"github.com", "a", "notes">> }

\* What the binary built from a repository answers to --manifest.  An id is
\* free text: the plugin of github.com/b/tool reports the name of the other
\* tool repository as its id.
ManifestOf(repo) ==
    IF Base(repo) = "notes"
      THEN [id |-> Id("storage.notes"), providesStorage |-> <<"notes">>]
      ELSE IF repo[2] = "b"
        THEN [id |-> <<"github.com", "a", "tool">>, providesStorage |-> <<>>]
        ELSE [id |-> Id("tools.tool"), providesStorage |-> <<>>]

\* name := filepath.Base(repo); binPath := filepath.Join(binDir, name)
BinPath(repo) == Join(PluginBinDir, Base(repo))

\* &PluginEntry{ID: manifest.ID, Binary: binPath, Repo: repo, ...}
PluginEntry(repo) ==
    [id              |-> ManifestOf(repo).id,
     binary          |-> BinPath(repo),
     repo            |-> repo,
     providesStorage |-> ManifestOf(repo).providesStorage]

\* The registry file: absent, not valid JSON, or a document mapping repo
\* keys to entries.
NoPlugins   == [r \in {} |-> PluginEntry(r)]
AbsentFile  == [state |-> "absent", plugins |-> NoPlugins]
InvalidFile == [state |-> "invalid", plugins |-> NoPlugins]
ValidFile(plugins) == [state |-> "valid", plugins |-> plugins]

RegFiles ==
    {AbsentFile, InvalidFile}
       \cup {ValidFile([r \in S |-> PluginEntry(r)]) : S \in SUBSET Repos}

PluginBinPaths == {BinPath(r) : r \in Repos}

\* no registry command has run
NoCmd == [cmd |-> "none", target |-> <<>>, key |-> <<>>, exit |-> 0, saved |-> "none"]

\* LoadRegistry: an absent file is an empty registry and no error, a file
\* that does not parse is (nil, err)
LoadRegistry(f) ==
    IF f.state = "absent" THEN [err |-> FALSE, isNil |-> FALSE, plugins |-> NoPlugins]
    ELSE IF f.state = "invalid" THEN [err |-> TRUE, isNil |-> TRUE, plugins |-> NoPlugins]
    ELSE [err |-> FALSE, isNil |-> FALSE, plugins |-> f.plugins]

VARIABLES
    pc,            \* pc[t]: position of goroutine t in RunServe
    sigCh,         \* signals buffered in sigCh (capacity 1)
    orchCmd,       \* the captured variable orchCmd (*exec.Cmd)
    hub,           \* the hub process: "none", "running", "exited"
    children,      \* the hub's child processes: "none", "running", "orphaned", "dead"
    log,           \* the log file's lines
    tmpConfig,     \* the temp config file: "none", "present", "removed"
    pidFile,       \* the pid file: "none", "present", "removed"
    transport,     \* the transport process: "none", "running", "exited"
    transportCode, \* the transport's exit code once it has exited
    i,             \* the poll loop's counter
    polls,         \* polls performed (log reads inside the loop)
    ready,         \* the local variable ready
    orchAddr,      \* the local variable orchAddr
    exited,        \* the supervisor process has exited
    exitCode,      \* its exit status
    exitBy,        \* which statement ended it
    cleanupStarted,\* invocations of cleanup begun
    cleanupDone,   \* invocations of cleanup completed
    panicked,      \* a nil dereference happened
    bins,          \* the sibling binaries present in the install directory
    regFile,       \* the registry file ~/.orchestra/plugins/registry.json
    pluginBins,    \* the plugin binaries present on disk
    cfg,           \* cfg.Plugins as written to the temp config
    staleKilled,   \* the stale-process pkill has been issued
    logTruncated,  \* the log file has been truncated by this run
    transportArgs, \* the arguments the transport was started with
    lastCmd,       \* the registry command run last and how it ended
    otherRun,      \* another serve run of the same installation: "none",
                   \* "running", "killed"
    writers        \* the plugins whose boot the hub has logged in this run

vars == <<pc, sigCh, orchCmd, hub, children, log, tmpConfig, pidFile,
          transport, transportCode, i, polls, ready, orchAddr,
          exited, exitCode, exitBy, cleanupStarted, cleanupDone, panicked,
          bins, regFile, pluginBins, cfg, staleKilled, logTruncated,
          transportArgs, lastCmd, otherRun, writers>>

procVars == <<hub, children, transport, transportCode>>
fileVars == <<log, tmpConfig, pidFile>>
loopVars == <<i, polls, ready, orchAddr>>
exitVars == <<exited, exitCode, exitBy>>
clnVars  == <<cleanupStarted, cleanupDone, panicked>>
sigVars  == <<sigCh>>
diskVars == <<bins, regFile, pluginBins, lastCmd>>
cfgVars  == <<cfg, staleKilled, logTruncated, transportArgs>>
auxVars  == <<otherRun, writers>>

\* ------------------------------------------------------- pure functions

\* strings.Count(logStr, "registered and booted")
RECURSIVE CountMarkers(_)
CountMarkers(l) ==
    IF l = <<>> THEN 0
    ELSE (IF Head(l).kind = "marker" THEN 1 ELSE 0) + CountMarkers(Tail(l))

\* (mutant) the threshold follows the number of plugins in the hub's config
IsReadyAllPlugins(booted) == booted >= Len(cfg)

\* if booted >= 2 { ready = true; break }
IsReady(booted) == booted >= ReadyThreshold

\* addrRe.FindStringSubmatch: the leftmost "listening on (\S+)"; NoAddr when
\* len(matches) < 2
RECURSIVE FindAddr(_)
FindAddr(l) ==
    IF l = <<>> THEN NoAddr
    ELSE IF Head(l).kind = "listen" THEN Head(l).addr
    ELSE FindAddr(Tail(l))

\* (mutant) the guard without its second half: orchCmd != nil
HasProcessNoProcessCheck(cmd) == cmd.set

\* cleanup's guard: orchCmd != nil && orchCmd.Process != nil
HasProcess(cmd) == cmd.set /\ cmd.process

\* if orchCmd.ProcessState != nil
HubSeenExited(cmd) == cmd.processState

\* ------------------------------------------------------------ exiting

\* os.Exit(code): the process ends here, deferred calls do not run.
Exit(code, by) ==
    /\ exited' = TRUE
    /\ exitCode' = code
    /\ exitBy' = by

\* fatal(...): print and os.Exit(1)
Fatal(by) == Exit(FatalCode, by)

Running(t) == ~exited /\ pc[t] # "off"

Goto(t, p) == pc' = [pc EXCEPT ![t] = p]

\* ---------------------------------------------------------- main flow

\* (mutant) the check leaves the transport binary out
RequiredBinsWithoutTransport == SiblingBins \ {"transport-stdio"}

\* the binaries the existence check ranges over: every entry of bins
RequiredBins == SiblingBins

\* for name, path := range bins { if os.Stat(path) is NotExist { fatal } }
CheckBins ==
    /\ Running("main") /\ pc["main"] = "checkBins"
    /\ IF RequiredBins \subseteq bins
         THEN Goto("main", "killStale") /\ UNCHANGED exitVars
         ELSE Fatal("missingBinary") /\ UNCHANGED pc
    /\ UNCHANGED <<auxVars, diskVars, cfgVars, sigVars, orchCmd, procVars, fileVars, loopVars, clnVars>>

\* (mutant) a pkill that kills nothing ends the run
KillStaleFatalOnMiss ==
    /\ Running("main") /\ pc["main"] = "killStale"
    /\ staleKilled' = TRUE
    /\ \E delivered \in BOOLEAN :
          /\ otherRun' = IF otherRun = "running" /\ delivered THEN "killed" ELSE otherRun
          /\ IF otherRun' = "killed"
               THEN Goto("main", "createTemp") /\ UNCHANGED exitVars
               ELSE Fatal("staleKill") /\ UNCHANGED pc
    /\ UNCHANGED <<writers, diskVars, cfg, logTruncated, transportArgs, sigVars, orchCmd,
                   procVars, fileVars, loopVars, clnVars>>

\* pkill -9 -f <bin> for every sibling binary, then time.Sleep(500ms);
\* no process of this run exists yet.  pkill -f matches command lines: the
\* hub, plugins and transport of another run started from the same binaries
\* are killed when the signal can be delivered, and survive otherwise.
KillStale ==
    /\ Running("main") /\ pc["main"] = "killStale"
    /\ staleKilled' = TRUE
    /\ \E delivered \in BOOLEAN :
          otherRun' = IF otherRun = "running" /\ delivered THEN "killed" ELSE otherRun
    /\ Goto("main", "createTemp")
    /\ UNCHANGED <<writers, diskVars, cfg, logTruncated, transportArgs, sigVars, orchCmd, procVars, fileVars, loopVars, exitVars, clnVars>>

\* the orders a range over a map with these keys can take
RECURSIVE Perms(_)
Perms(S) ==
    IF S = {} THEN {<<>>}
    ELSE UNION {{<<x>> \o p : p \in Perms(S \ {x})} : x \in S}

\* cfg.Plugins as first built: storage.markdown with its workspace argument,
\* tools.features with no Args
BuiltinConfigs(ws) ==
    << [id |-> Id("storage.markdown"), binary |-> Join(InstallDir, "storage-markdown"),
        enabled |-> TRUE, providesStorage |-> <<"markdown">>,
        args |-> <<WorkspaceArg(ws)>>],
       [id |-> Id("tools.features"), binary |-> Join(InstallDir, "tools-features"),
        enabled |-> TRUE, providesStorage |-> <<>>,
        args |-> <<>>] >>

\* pluginConfig{ID: p.ID, Binary: p.Binary, Enabled: true,
\*              ProvidesStorage: p.ProvidesStorage, Args: [--workspace=...]}
PluginConfig(p, ws) ==
    [id |-> p.id, binary |-> p.binary, enabled |-> TRUE,
     providesStorage |-> p.providesStorage, args |-> <<WorkspaceArg(ws)>>]

\* (mutant) no entry is skipped for its binary
StatOkAlways(path, onDisk) == TRUE

\* if _, err := os.Stat(p.Binary); err != nil { continue }
StatOk(path, onDisk) == path \in onDisk

\* registry, err := LoadRegistry(); if err == nil && registry != nil {
\*   for _, p := range registry.Plugins { skip a missing binary; append } }
\* The results of every order the range can take; nothing is appended when
\* the load failed.
RegistryConfigs(loaded, onDisk, ws) ==
    IF ~loaded.err /\ ~loaded.isNil
      THEN LET kept == {k \in DOMAIN loaded.plugins :
                           StatOk(loaded.plugins[k].binary, onDisk)}
           IN  {[n \in 1..Len(o) |-> PluginConfig(loaded.plugins[o[n]], ws)] :
                   o \in Perms(kept)}
      ELSE {<<>>}

\* Build cfg (the built-ins, then the registry's plugins), then
\* os.CreateTemp, Write, Close.
CreateTemp ==
    /\ Running("main") /\ pc["main"] = "createTemp"
    /\ \E ok \in BOOLEAN,
          tail \in RegistryConfigs(LoadRegistry(regFile), pluginBins, AbsWorkspace) :
          IF ok
            THEN /\ tmpConfig' = "present"
                 /\ cfg' = BuiltinConfigs(AbsWorkspace) \o tail
                 /\ Goto("main", "truncLog")
                 /\ UNCHANGED exitVars
            ELSE /\ Fatal("createTemp")
                 /\ UNCHANGED <<pc, tmpConfig, cfg>>
    /\ UNCHANGED <<auxVars, diskVars, staleKilled, logTruncated, transportArgs, sigVars, orchCmd, procVars, log, pidFile, loopVars, clnVars>>

\* os.WriteFile(logFile, nil, 0644)
TruncLog ==
    /\ Running("main") /\ pc["main"] = "truncLog"
    /\ log' = <<>>
    /\ logTruncated' = TRUE
    /\ Goto("main", "notify")
    /\ UNCHANGED <<auxVars, diskVars, cfg, staleKilled, transportArgs, sigVars, orchCmd, procVars, tmpConfig, pidFile, loopVars, exitVars, clnVars>>

\* os.WriteFile(logFile, nil, 0644) returning an error (the file cannot be
\* opened with O_TRUNC, as an append-only file cannot): the error is dropped
\* and the file keeps its content.
TruncLogFails ==
    /\ Running("main") /\ pc["main"] = "truncLog"
    /\ Goto("main", "notify")
    /\ UNCHANGED <<auxVars, diskVars, cfgVars, sigVars, orchCmd, procVars, fileVars,
                   loopVars, exitVars, clnVars>>

\* signal.Notify(sigCh, SIGINT, SIGTERM); go func() {...}(); defer cleanup()
Notify ==
    /\ Running("main") /\ pc["main"] = "notify"
    /\ pc' = [pc EXCEPT !["main"] = "openLog", !["handler"] = "wait"]
    /\ UNCHANGED <<auxVars, diskVars, cfgVars, sigVars, orchCmd, procVars, fileVars, loopVars, exitVars, clnVars>>

\* lf, err := os.OpenFile(logFile, ...); if err != nil { fatal }
OpenLog ==
    /\ Running("main") /\ pc["main"] = "openLog"
    /\ \E ok \in BOOLEAN :
          IF ok
            THEN Goto("main", "newCmd") /\ UNCHANGED exitVars
            ELSE Fatal("openLog") /\ UNCHANGED pc
    /\ UNCHANGED <<auxVars, diskVars, cfgVars, sigVars, orchCmd, procVars, fileVars, loopVars, clnVars>>

\* orchCmd = exec.Command(bins["orchestrator"], "--config", tmpConfig)
NewCmd ==
    /\ Running("main") /\ pc["main"] = "newCmd"
    /\ orchCmd' = [set |-> TRUE, process |-> FALSE, processState |-> FALSE]
    /\ Goto("main", "startHub")
    /\ UNCHANGED <<auxVars, diskVars, cfgVars, sigVars, procVars, fileVars, loopVars, exitVars, clnVars>>

\* if err := orchCmd.Start(); err != nil { fatal }
\* Start sets orchCmd.Process; ProcessState stays nil until Wait, which
\* RunServe never calls on orchCmd.
StartHub ==
    /\ Running("main") /\ pc["main"] = "startHub"
    /\ \E ok \in BOOLEAN :
          IF ok
            THEN /\ orchCmd' = [orchCmd EXCEPT !.process = TRUE]
                 /\ hub' = "running"
                 /\ Goto("main", "writePid")
                 /\ UNCHANGED exitVars
            ELSE /\ Fatal("startHub")
                 /\ UNCHANGED <<pc, orchCmd, hub>>
    /\ UNCHANGED <<auxVars, diskVars, cfgVars, sigVars, children, transport, transportCode, fileVars, loopVars, clnVars>>

\* os.WriteFile(pidFile, pid); defer os.Remove(pidFile)
WritePid ==
    /\ Running("main") /\ pc["main"] = "writePid"
    /\ pidFile' = "present"
    /\ Goto("main", "poll")
    /\ UNCHANGED <<auxVars, diskVars, cfgVars, sigVars, orchCmd, procVars, log, tmpConfig, loopVars, exitVars, clnVars>>

\* (mutant) the loop's condition off by one: i <= 30
LoopContinuesOffByOne(n) == n <= MaxPolls

\* the loop's condition: i < 30
LoopContinues(n) == n < MaxPolls

\* One iteration of the readiness loop: sleep, read the log, count the
\* markers, break when ready, otherwise look at orchCmd.ProcessState.
Poll ==
    /\ Running("main") /\ pc["main"] = "poll"
    /\ LoopContinues(i)
    /\ polls' = polls + 1
    /\ LET booted == CountMarkers(log) IN
          IF IsReady(booted)
            THEN /\ ready' = TRUE
                 /\ Goto("main", "afterLoop")
                 /\ UNCHANGED <<i, exitVars>>
            ELSE IF HubSeenExited(orchCmd)
                   THEN /\ Fatal("hubExited")
                        /\ UNCHANGED <<pc, i, ready>>
                   ELSE /\ i' = i + 1
                        /\ Goto("main", IF LoopContinues(i + 1) THEN "poll" ELSE "afterLoop")
                        /\ UNCHANGED <<ready, exitVars>>
    /\ UNCHANGED <<auxVars, diskVars, cfgVars, sigVars, orchCmd, procVars, fileVars, orchAddr, clnVars>>

\* (mutant) the loop's result is not looked at
AfterLoopUnchecked(r) == "extract"

\* if !ready { fatal("... did not become ready in 15 seconds") }
AfterLoop(r) == IF r THEN "extract" ELSE "fatal"

CheckReady ==
    /\ Running("main") /\ pc["main"] = "afterLoop"
    /\ IF AfterLoop(ready) = "fatal"
         THEN Fatal("timeout") /\ UNCHANGED pc
         ELSE Goto("main", AfterLoop(ready)) /\ UNCHANGED exitVars
    /\ UNCHANGED <<auxVars, diskVars, cfgVars, sigVars, orchCmd, procVars, fileVars, loopVars, clnVars>>

\* (mutant) an address made up when the log announces none
ExtractedAddrOrDefault(l) == IF FindAddr(l) = NoAddr THEN "localhost:0" ELSE FindAddr(l)

\* matches := addrRe.FindStringSubmatch(string(logData)); matches[1]
ExtractedAddr(l) == FindAddr(l)

\* logData := ReadFile; matches := FindStringSubmatch; fatal when none
Extract ==
    /\ Running("main") /\ pc["main"] = "extract"
    /\ LET m == ExtractedAddr(log) IN
          IF m = NoAddr
            THEN /\ Fatal("noAddr")
                 /\ UNCHANGED <<pc, orchAddr>>
            ELSE /\ orchAddr' = m
                 /\ Goto("main", "startTransport")
                 /\ UNCHANGED exitVars
    /\ UNCHANGED <<auxVars, diskVars, cfgVars, sigVars, orchCmd, procVars, fileVars, i, polls, ready, clnVars>>

\* transportCmd.Run(): the start half.  A failed start is an error that is
\* no *exec.ExitError, so RunServe falls through to its deferred calls.
StartTransport ==
    /\ Running("main") /\ pc["main"] = "startTransport"
    /\ \E ok \in BOOLEAN :
          IF ok
            THEN /\ transport' = "running"
                 /\ transportArgs' = <<OrchestratorAddrArg(orchAddr),
                                       CertsDirArg(AbsCertsDir)>>
                 /\ Goto("main", "waitTransport")
            ELSE /\ UNCHANGED <<transport, transportArgs>>
                 /\ Goto("main", "deferPid")
    /\ UNCHANGED <<auxVars, diskVars, cfg, staleKilled, logTruncated, sigVars, orchCmd, hub, children, transportCode, fileVars, loopVars,
                   exitVars, clnVars>>

\* the exit status the parent sees after exit(code): its low 8 bits
OsExitStatus(code) == code % 256

\* (mutant) every failure of the transport reported with the fatal code
TransportExitStatusFixed(code) == FatalCode

\* os.Exit(exitErr.ExitCode())
TransportExitStatus(code) == OsExitStatus(code)

\* transportCmd.Run(): the wait half, then os.Exit(exitErr.ExitCode()) on a
\* non-zero exit and the fall-through to the deferred calls otherwise.
WaitTransport ==
    /\ Running("main") /\ pc["main"] = "waitTransport"
    /\ transport = "exited"
    /\ IF transportCode # 0
         THEN Exit(TransportExitStatus(transportCode), "transport") /\ UNCHANGED pc
         ELSE Goto("main", "deferPid") /\ UNCHANGED exitVars
    /\ UNCHANGED <<auxVars, diskVars, cfgVars, sigVars, orchCmd, procVars, fileVars, loopVars, clnVars>>

\* Deferred calls, last registered first: os.Remove(pidFile), lf.Close()
\* (no modelled state), then cleanup().
DeferPid ==
    /\ Running("main") /\ pc["main"] = "deferPid"
    /\ pidFile' = IF pidFile = "present" THEN "removed" ELSE pidFile
    /\ Goto("main", "cGuard")
    /\ cleanupStarted' = cleanupStarted + 1
    /\ UNCHANGED <<auxVars, diskVars, cfgVars, sigVars, orchCmd, procVars, log, tmpConfig, loopVars, exitVars,
                   cleanupDone, panicked>>

\* RunServe returns, main returns: the process exits with status 0.
MainReturn ==
    /\ Running("main") /\ pc["main"] = "ret"
    /\ Exit(0, "return")
    /\ UNCHANGED <<auxVars, diskVars, cfgVars, pc, sigVars, orchCmd, procVars, fileVars, loopVars, clnVars>>

\* ------------------------------------------------------ signal handler

\* <-sigCh
HandlerRecv ==
    /\ Running("handler") /\ pc["handler"] = "wait"
    /\ sigCh > 0
    /\ sigCh' = sigCh - 1
    /\ Goto("handler", "cGuard")
    /\ cleanupStarted' = cleanupStarted + 1
    /\ UNCHANGED <<auxVars, diskVars, cfgVars, orchCmd, procVars, fileVars, loopVars, exitVars,
                   cleanupDone, panicked>>

\* os.Exit(0) after cleanup()
HandlerExit ==
    /\ Running("handler") /\ pc["handler"] = "exit0"
    /\ Exit(0, "signal")
    /\ UNCHANGED <<auxVars, diskVars, cfgVars, pc, sigVars, orchCmd, procVars, fileVars, loopVars, clnVars>>

\* ------------------------------------------------------------- cleanup

\* where a goroutine continues once its call of cleanup returns
AfterCleanup(t) == IF t = "main" THEN "ret" ELSE "exit0"

\* (mutant) cleanup returns at once when no hub was started
CGuardReturnsEarly(t) ==
    /\ Running(t) /\ pc[t] = "cGuard"
    /\ Goto(t, IF HasProcess(orchCmd) THEN "cPkill" ELSE AfterCleanup(t))
    /\ cleanupDone' = IF HasProcess(orchCmd) THEN cleanupDone ELSE cleanupDone + 1
    /\ UNCHANGED <<auxVars, diskVars, cfgVars, sigVars, orchCmd, procVars, fileVars,
                   loopVars, exitVars, cleanupStarted, panicked>>

\* if orchCmd != nil && orchCmd.Process != nil {
CGuard(t) ==
    /\ Running(t) /\ pc[t] = "cGuard"
    /\ Goto(t, IF HasProcess(orchCmd) THEN "cPkill" ELSE "cRemove")
    /\ UNCHANGED <<auxVars, diskVars, cfgVars, sigVars, orchCmd, procVars, fileVars, loopVars, exitVars, clnVars>>

\* exec.Command("pkill", "-P", pid).Run(): SIGTERM to the processes whose
\* parent is the hub; each may stop or keep running.  Evaluating
\* orchCmd.Process.Pid with no Process is a nil dereference.
CPkill(t) ==
    /\ Running(t) /\ pc[t] = "cPkill"
    /\ IF ~(orchCmd.set /\ orchCmd.process)
         THEN /\ panicked' = TRUE
              /\ Exit(2, "panic")
              /\ UNCHANGED <<pc, children, cleanupStarted, cleanupDone>>
         ELSE /\ \E c \in (IF children = "running" THEN {"running", "dead"} ELSE {children}) :
                    children' = c
              /\ Goto(t, "cTerm")
              /\ UNCHANGED <<exitVars, clnVars>>
    /\ UNCHANGED <<auxVars, diskVars, cfgVars, sigVars, orchCmd, hub, transport, transportCode, fileVars, loopVars>>

\* orchCmd.Process.Signal(syscall.SIGTERM): whether and when the hub stops
\* is the hub's choice (HubExit).
CTerm(t) ==
    /\ Running(t) /\ pc[t] = "cTerm"
    /\ Goto(t, "cSleep")
    /\ UNCHANGED <<auxVars, diskVars, cfgVars, sigVars, orchCmd, procVars, fileVars, loopVars, exitVars, clnVars>>

\* time.Sleep(300 * time.Millisecond)
CSleep(t) ==
    /\ Running(t) /\ pc[t] = "cSleep"
    /\ Goto(t, "cPkill9")
    /\ UNCHANGED <<auxVars, diskVars, cfgVars, sigVars, orchCmd, procVars, fileVars, loopVars, exitVars, clnVars>>

\* exec.Command("pkill", "-9", "-P", pid).Run(): SIGKILL to the processes
\* whose parent is still the hub.
CPkill9(t) ==
    /\ Running(t) /\ pc[t] = "cPkill9"
    /\ children' = IF children = "running" THEN "dead" ELSE children
    /\ Goto(t, "cKill")
    /\ UNCHANGED <<auxVars, diskVars, cfgVars, sigVars, orchCmd, hub, transport, transportCode, fileVars, loopVars,
                   exitVars, clnVars>>

\* orchCmd.Process.Kill()
CKill(t) ==
    /\ Running(t) /\ pc[t] = "cKill"
    /\ hub' = IF hub = "running" THEN "exited" ELSE hub
    /\ children' = IF hub = "running" /\ children = "running" THEN "orphaned" ELSE children
    /\ Goto(t, "cRemove")
    /\ UNCHANGED <<auxVars, diskVars, cfgVars, sigVars, orchCmd, transport, transportCode, fileVars, loopVars,
                   exitVars, clnVars>>

\* os.Remove(tmpConfig): the error of removing an absent file is dropped.
CRemove(t) ==
    /\ Running(t) /\ pc[t] = "cRemove"
    /\ tmpConfig' = IF tmpConfig = "present" THEN "removed" ELSE tmpConfig
    /\ cleanupDone' = cleanupDone + 1
    /\ Goto(t, AfterCleanup(t))
    /\ UNCHANGED <<auxVars, diskVars, cfgVars, sigVars, orchCmd, procVars, log, pidFile, loopVars, exitVars,
                   cleanupStarted, panicked>>

Cleanup == \E t \in Threads :
    CGuard(t) \/ CPkill(t) \/ CTerm(t) \/ CSleep(t) \/ CPkill9(t) \/ CKill(t) \/ CRemove(t)

\* --------------------------------------------------------- environment

\* SIGINT or SIGTERM reaches the supervisor.  Before signal.Notify the
\* default disposition ends the process; afterwards the signal is queued
\* in sigCh, or dropped when the buffer of 1 is full.
Signal ==
    /\ ~exited
    /\ IF pc["handler"] = "off"
         THEN Exit(-1, "signalDefault") /\ UNCHANGED sigCh
         ELSE sigCh' = 1 /\ UNCHANGED exitVars
    /\ UNCHANGED <<auxVars, diskVars, cfgVars, pc, orchCmd, procVars, fileVars, loopVars, clnVars>>

\* The hub starts the plugin processes of its config.
HubSpawn ==
    /\ ~exited /\ hub = "running" /\ children = "none"
    /\ children' = "running"
    /\ UNCHANGED <<auxVars, diskVars, cfgVars, pc, sigVars, orchCmd, hub, transport, transportCode, fileVars,
                   loopVars, exitVars, clnVars>>

\* The hub appends a line to the log (its stdout and stderr).
HubWrite ==
    /\ ~exited /\ hub = "running"
    /\ Len(log) < MaxLogLen
    /\ \E l \in LogLines : log' = Append(log, l)
    /\ UNCHANGED <<auxVars, diskVars, cfgVars, pc, sigVars, orchCmd, procVars, tmpConfig, pidFile, loopVars,
                   exitVars, clnVars>>

\* the plugin ids of the hub's config
ConfigIds == {cfg[n].id : n \in 1..Len(cfg)}

\* The hub logs "registered and booted" for a plugin of its config that has
\* started; each plugin boots once.
HubLogsBoot ==
    /\ ~exited /\ hub = "running"
    /\ Len(log) < MaxLogLen
    /\ \E c \in ConfigIds \ writers :
          /\ log' = Append(log, Marker)
          /\ writers' = writers \cup {c}
    /\ UNCHANGED <<otherRun, diskVars, cfgVars, pc, sigVars, orchCmd, procVars, tmpConfig,
                   pidFile, loopVars, exitVars, clnVars>>

\* The hub logs its "listening on <address>" line.
HubLogsAddr ==
    /\ HubWrite
    /\ log'[Len(log')].kind = "listen"

\* The hub exits on its own (a crash, or its answer to SIGTERM); its
\* children stop with it or are left behind.
HubExit ==
    /\ ~exited /\ hub = "running"
    /\ hub' = "exited"
    /\ \E c \in (IF children = "running" THEN {"orphaned", "dead"} ELSE {children}) :
          children' = c
    /\ UNCHANGED <<auxVars, diskVars, cfgVars, pc, sigVars, orchCmd, transport, transportCode, fileVars, loopVars,
                   exitVars, clnVars>>

\* The transport process exits.
TransportExit ==
    /\ ~exited /\ transport = "running"
    /\ transport' = "exited"
    /\ \E c \in TransportCodes : transportCode' = c
    /\ UNCHANGED <<auxVars, diskVars, cfgVars, pc, sigVars, orchCmd, hub, children, fileVars, loopVars, exitVars,
                   clnVars>>

\* ---------------------------------------------------- registry commands
\* install, uninstall, update <plugin> and plugins: each is one run of the
\* CLI, from its start to its exit.

runVars == <<pc, sigCh, orchCmd, procVars, fileVars, loopVars, exitVars, clnVars,
             cfgVars, auxVars, bins>>

PluginIds == {ManifestOf(r).id : r \in Repos}

\* what a user passes as <plugin-id-or-repo>
Targets == Repos \cup PluginIds

\* How SaveRegistry ends: it succeeds, os.MkdirAll fails, os.WriteFile fails
\* to open the file, or os.WriteFile fails after it has truncated the file.
\* (json.MarshalIndent cannot fail on a PluginRegistry.)
SaveOutcomes == {"ok", "mkdirFailed", "openFailed", "writeFailed"}

\* SaveRegistry(reg): the error it returns and the file it leaves.
\* os.WriteFile opens with O_TRUNC and writes in place: a write that fails
\* part-way leaves a document that no longer parses.
SaveRegistry(file, plugins, outcome) ==
    IF outcome = "ok" THEN [err |-> FALSE, file |-> ValidFile(plugins)]
    ELSE IF outcome = "writeFailed" THEN [err |-> TRUE, file |-> InvalidFile]
    ELSE [err |-> TRUE, file |-> file]

\* (mutant) the search by plugin id comes first
FindEntryIdFirst(plugins, target) ==
    IF \E k \in DOMAIN plugins : plugins[k].id = target
      THEN {k \in DOMAIN plugins : plugins[k].id = target}
      ELSE {target} \cap DOMAIN plugins

\* if p, ok := reg.Plugins[target]; ok { ... } else { for k, p := range
\* reg.Plugins { if p.ID == target { ...; break } } }
\* The keys the search can end on; none when entry == nil.
FindEntry(plugins, target) ==
    IF target \in DOMAIN plugins
      THEN {target}
      ELSE {k \in DOMAIN plugins : plugins[k].id = target}

\* reg.Plugins[repo] = entry
WithEntry(plugins, repo, entry) ==
    [k \in DOMAIN plugins \cup {repo} |-> IF k = repo THEN entry ELSE plugins[k]]

\* delete(reg.Plugins, repoKey)
WithoutEntry(plugins, key) == [k \in DOMAIN plugins \ {key} |-> plugins[k]]

Ended(cmd, target, key, code, saved) ==
    lastCmd' = [cmd |-> cmd, target |-> target, key |-> key, exit |-> code, saved |-> saved]

\* RunInstall on repo: download or build the binary at binPath, load the
\* registry, set the entry, save.
Install(cmd, target, repo) ==
    \E built \in BOOLEAN, outcome \in SaveOutcomes :
       IF ~built
         THEN /\ Ended(cmd, target, repo, FatalCode, "none")
              /\ UNCHANGED <<regFile, pluginBins>>
         ELSE /\ pluginBins' = pluginBins \cup {BinPath(repo)}
              /\ LET loaded == LoadRegistry(regFile) IN
                   IF loaded.err
                     THEN /\ Ended(cmd, target, repo, FatalCode, "none")
                          /\ UNCHANGED regFile
                     ELSE LET s == SaveRegistry(regFile,
                                      WithEntry(loaded.plugins, repo, PluginEntry(repo)),
                                      outcome)
                          IN  /\ regFile' = s.file
                              /\ Ended(cmd, target, repo,
                                       IF s.err THEN FatalCode ELSE 0, outcome)

\* orchestra install <repo>
RunInstall ==
    /\ \E repo \in Repos : Install("install", repo, repo)
    /\ UNCHANGED runVars

\* orchestra uninstall <plugin-id-or-repo>
RunUninstall ==
    /\ \E target \in Targets, removed \in BOOLEAN, outcome \in SaveOutcomes :
          LET loaded == LoadRegistry(regFile) IN
          IF loaded.err \/ FindEntry(loaded.plugins, target) = {}
            THEN /\ Ended("uninstall", target, <<>>, FatalCode, "none")
                 /\ UNCHANGED <<regFile, pluginBins>>
            ELSE \E key \in FindEntry(loaded.plugins, target) :
                   LET s == SaveRegistry(regFile, WithoutEntry(loaded.plugins, key),
                                         outcome)
                   IN  /\ pluginBins' = IF removed
                                          THEN pluginBins \ {loaded.plugins[key].binary}
                                          ELSE pluginBins
                       /\ regFile' = s.file
                       /\ Ended("uninstall", target, key,
                                IF s.err THEN FatalCode ELSE 0, outcome)
    /\ UNCHANGED runVars

\* orchestra update <plugin>
RunUpdate ==
    /\ \E target \in Targets :
          LET loaded == LoadRegistry(regFile) IN
          IF loaded.err \/ FindEntry(loaded.plugins, target) = {}
            THEN /\ Ended("update", target, <<>>, FatalCode, "none")
                 /\ UNCHANGED <<regFile, pluginBins>>
            ELSE \E key \in FindEntry(loaded.plugins, target) :
                   Install("update", target, loaded.plugins[key].repo)
    /\ UNCHANGED runVars

\* orchestra plugins
RunPlugins ==
    /\ Ended("plugins", <<>>, <<>>,
             IF LoadRegistry(regFile).err THEN FatalCode ELSE 0, "none")
    /\ UNCHANGED <<regFile, pluginBins, runVars>>

\* --------------------------------------------------------- specification

\* the log's possible contents
RECURSIVE LogsOfLen(_)
LogsOfLen(n) ==
    IF n = 0 THEN {<<>>}
    ELSE {Append(l, x) : l \in LogsOfLen(n - 1), x \in LogLines}

Logs == UNION {LogsOfLen(n) : n \in 0..MaxLogLen}

\* The state at the entry of RunServe.
InitRun ==
    /\ pc = [t \in Threads |-> IF t = "main" THEN "checkBins" ELSE "off"]
    /\ sigCh = 0
    /\ orchCmd = NilCmd
    /\ hub = "none"
    /\ children = "none"
    /\ tmpConfig = "none"
    /\ pidFile = "none"
    /\ transport = "none"
    /\ transportCode = 0
    /\ i = 0
    /\ polls = 0
    /\ ready = FALSE
    /\ orchAddr = NoAddr
    /\ exited = FALSE
    /\ exitCode = 0
    /\ exitBy = "none"
    /\ cleanupStarted = 0
    /\ cleanupDone = 0
    /\ panicked = FALSE
    /\ cfg = <<>>
    /\ staleKilled = FALSE
    /\ logTruncated = FALSE
    /\ transportArgs = <<>>
    /\ lastCmd = NoCmd
    /\ writers = {}

\* serve run on an installation with no plugin ever installed; any of the
\* sibling binaries may be missing and the log file may hold what an earlier
\* run left in it.
Init ==
    /\ InitRun
    /\ otherRun = "none"
    /\ log \in Logs
    /\ bins \in SUBSET SiblingBins
    /\ regFile = AbsentFile
    /\ pluginBins = {}

\* serve run on any registry file and any set of plugin binaries on disk.
InitAnyRegistry ==
    /\ InitRun
    /\ otherRun = "none"
    /\ log \in Logs
    /\ bins \in SUBSET SiblingBins
    /\ regFile \in RegFiles
    /\ pluginBins \in SUBSET PluginBinPaths

Main ==
    \/ CheckBins \/ KillStale \/ CreateTemp \/ TruncLog \/ Notify \/ OpenLog
    \/ NewCmd \/ StartHub \/ WritePid \/ Poll \/ CheckReady \/ Extract
    \/ StartTransport \/ WaitTransport \/ DeferPid \/ MainReturn
    \/ CGuard("main") \/ CPkill("main") \/ CTerm("main") \/ CSleep("main")
    \/ CPkill9("main") \/ CKill("main") \/ CRemove("main")

Handler ==
    \/ HandlerRecv \/ HandlerExit
    \/ CGuard("handler") \/ CPkill("handler") \/ CTerm("handler") \/ CSleep("handler")
    \/ CPkill9("handler") \/ CKill("handler") \/ CRemove("handler")

Env == Signal \/ HubSpawn \/ HubWrite \/ HubExit \/ TransportExit

Next ==
    \/ CheckBins \/ KillStale \/ CreateTemp \/ TruncLog \/ Notify \/ OpenLog
    \/ NewCmd \/ StartHub \/ WritePid \/ Poll \/ CheckReady \/ Extract
    \/ StartTransport \/ WaitTransport \/ DeferPid \/ MainReturn
    \/ HandlerRecv \/ HandlerExit
    \/ Cleanup
    \/ Signal \/ HubSpawn \/ HubWrite \/ HubExit \/ TransportExit

Spec == Init /\ [][Next]_vars

\* The Go scheduler runs every runnable goroutine: a goroutine that can
\* take a step eventually takes one.  Nothing is assumed of the hub, the
\* transport or the sender of signals.
FairSpec == Spec /\ WF_vars(Main) /\ WF_vars(Handler)

\* The runs in which signals reach the supervisor only while its main flow
\* is in the readiness poll loop (AWAITING_READY).
SignalInPoll == Signal /\ pc["main"] = "poll"

NextSignalInPoll ==
    \/ CheckBins \/ KillStale \/ CreateTemp \/ TruncLog \/ Notify \/ OpenLog
    \/ NewCmd \/ StartHub \/ WritePid \/ Poll \/ CheckReady \/ Extract
    \/ StartTransport \/ WaitTransport \/ DeferPid \/ MainReturn
    \/ HandlerRecv \/ HandlerExit
    \/ Cleanup
    \/ SignalInPoll \/ HubSpawn \/ HubWrite \/ HubExit \/ TransportExit

SpecSignalInPoll == Init /\ [][NextSignalInPoll]_vars

\* The runs of serve on any registry in which no signal reaches the
\* supervisor.
NextNoSignal ==
    \/ CheckBins \/ KillStale \/ CreateTemp \/ TruncLog \/ Notify \/ OpenLog
    \/ NewCmd \/ StartHub \/ WritePid \/ Poll \/ CheckReady \/ Extract
    \/ StartTransport \/ WaitTransport \/ DeferPid \/ MainReturn
    \/ CGuard("main") \/ CPkill("main") \/ CTerm("main") \/ CSleep("main")
    \/ CPkill9("main") \/ CKill("main") \/ CRemove("main")
    \/ HubSpawn \/ HubWrite \/ HubExit \/ TransportExit

SpecAnyRegistry == InitAnyRegistry /\ [][NextNoSignal]_vars

\* The runs of serve, without signals, next to another serve run started
\* from the same installation directory (or none).
InitOtherRun ==
    /\ InitRun
    /\ otherRun \in {"none", "running"}
    /\ log \in Logs
    /\ bins \in SUBSET SiblingBins
    /\ regFile = AbsentFile
    /\ pluginBins = {}

SpecOtherRun == InitOtherRun /\ [][NextNoSignal]_vars

\* The runs of serve, without signals, in which the truncation of the log
\* can fail.
NextTruncFails == NextNoSignal \/ TruncLogFails

SpecTruncFails == Init /\ [][NextTruncFails]_vars

\* The runs of serve, without signals and on any registry, in which the hub
\* stays alive and logs one marker for each plugin that boots.
InitMarkers ==
    /\ InitRun
    /\ otherRun = "none"
    /\ log = <<>>
    /\ bins = SiblingBins
    /\ regFile \in RegFiles
    /\ pluginBins \in SUBSET PluginBinPaths

NextMarkers ==
    \/ CheckBins \/ KillStale \/ CreateTemp \/ TruncLog \/ Notify \/ OpenLog
    \/ NewCmd \/ StartHub \/ WritePid \/ Poll \/ CheckReady \/ Extract
    \/ StartTransport \/ WaitTransport \/ DeferPid \/ MainReturn
    \/ CGuard("main") \/ CPkill("main") \/ CTerm("main") \/ CSleep("main")
    \/ CPkill9("main") \/ CKill("main") \/ CRemove("main")
    \/ HubSpawn \/ HubLogsBoot \/ HubLogsAddr \/ TransportExit

SpecMarkers == InitMarkers /\ [][NextMarkers]_vars

\* The end-to-end scenario: empty registry, every sibling binary present, no
\* failing system call, no signal, and a hub that stays alive and writes two
\* readiness markers within 1 s and its "listening on" line within 2 s of its
\* launch.  The polls are 500 ms apart, so the third and later polls find
\* both markers in the log, the fifth and later polls the address (polls
\* counts the polls already performed).
RECURSIVE CountListening(_)
CountListening(l) ==
    IF l = <<>> THEN 0
    ELSE (IF Head(l).kind = "listen" THEN 1 ELSE 0) + CountListening(Tail(l))

ScenarioCreateTemp == CreateTemp /\ ~exited'
ScenarioOpenLog == OpenLog /\ ~exited'
ScenarioStartHub == StartHub /\ ~exited'
ScenarioStartTransport == StartTransport /\ transport' = "running"

ScenarioPoll ==
    /\ Poll
    /\ polls >= 2 => CountMarkers(log) >= 2
    /\ polls >= 4 => CountListening(log) >= 1

ScenarioHubWrite ==
    /\ HubWrite
    /\ CountMarkers(log') <= 2
    /\ CountListening(log') <= 1

InitScenario ==
    /\ InitRun
    /\ otherRun = "none"
    /\ log \in Logs
    /\ bins = SiblingBins
    /\ regFile \in {AbsentFile, ValidFile(NoPlugins)}
    /\ pluginBins = {}

NextScenario ==
    \/ CheckBins \/ KillStale \/ ScenarioCreateTemp \/ TruncLog \/ Notify
    \/ ScenarioOpenLog \/ NewCmd \/ ScenarioStartHub \/ WritePid \/ ScenarioPoll
    \/ CheckReady \/ Extract \/ ScenarioStartTransport \/ WaitTransport
    \/ DeferPid \/ MainReturn
    \/ CGuard("main") \/ CPkill("main") \/ CTerm("main") \/ CSleep("main")
    \/ CPkill9("main") \/ CKill("main") \/ CRemove("main")
    \/ HubSpawn \/ ScenarioHubWrite \/ TransportExit

SpecScenario == InitScenario /\ [][NextScenario]_vars

\* The registry commands run one after another on an installation that
\* starts with no registry file and no plugin binary.
InitCommands ==
    /\ InitRun
    /\ otherRun = "none"
    /\ log = <<>>
    /\ bins = SiblingBins
    /\ regFile = AbsentFile
    /\ pluginBins = {}

NextCommands == RunInstall \/ RunUninstall \/ RunUpdate \/ RunPlugins

SpecCommands == InitCommands /\ [][NextCommands]_vars

\* ================================================================ claims

PrePollPcs == {"checkBins", "killStale", "createTemp", "truncLog", "notify",
               "openLog", "newCmd", "startHub", "writePid"}

\* the hub of this run was started
HubStarted == hub # "none"

\* the hub and the processes it started are gone
TreeDown == hub # "running" /\ children \notin {"running", "orphaned"}

\* a signal has been delivered to the supervisor
SignalDelivered ==
    sigCh > 0 \/ pc["handler"] \notin {"off", "wait"} \/ exitBy = "signalDefault"

\* C1: the transport is spawned only after a poll has observed the readiness
\* threshold in the log and an address has then been extracted from the log:
\* a spawned transport implies ready and an extracted address, an extracted
\* address implies ready, ready implies the log holds the threshold of
\* markers, and the address is the one the log announces.
C1_TransportAfterReadyAndAddr ==
    /\ (transport # "none" \/ pc["main"] = "startTransport")
          => (ready /\ orchAddr # NoAddr)
    /\ orchAddr # NoAddr => (ready /\ orchAddr = FindAddr(log))
    /\ ready => (polls >= 1 /\ CountMarkers(log) >= ReadyThreshold)

C1_Witness ==
    transport = "running" /\ ready /\ orchAddr \in Addrs

\* C2: whenever the supervisor exits after the hub was started, the hub and
\* its descendants are no longer running.
C2_TreeDownOnEveryExit ==
    (exited /\ HubStarted) => TreeDown

\* C3: whenever the supervisor itself ends the process (return, handler,
\* fatal, transport exit code) after the temp config was created, the temp
\* config file no longer exists.
C3_TmpConfigRemovedOnEveryExit ==
    (exited /\ exitBy # "signalDefault" /\ tmpConfig # "none") => tmpConfig = "removed"

\* C4 (under SpecSignalInPoll, where every signal arrives during the poll
\* loop): if a signal was delivered, then at the supervisor's exit the hub is
\* dead and the temp config is removed.
C4_SignalInPollCleansUp ==
    (exited /\ SignalDelivered) => (hub = "exited" /\ tmpConfig = "removed")

\* C5: if a signal was delivered once the temp config existed, then at the
\* supervisor's exit the hub (if started) is dead and the temp config is
\* removed.
C5_SignalAnywhereCleansUp ==
    (exited /\ SignalDelivered /\ tmpConfig # "none")
        => (hub # "running" /\ tmpConfig = "removed")

\* C6: in a run that launched the hub, cleanup never begins twice, and at
\* the supervisor's exit it has run to completion exactly once.
C6_CleanupExactlyOnce ==
    /\ cleanupStarted <= 1
    /\ (exited /\ HubStarted) => cleanupDone = 1

\* a goroutine takes a step of cleanup
CleanupStepTaken ==
    \E t \in Threads : pc[t] \in CleanupPcs /\ pc'[t] # pc[t]

\* C7: no step of cleanup dereferences nil, and every step of a cleanup
\* invocation taken after an invocation has completed, with the hub already
\* dead and the temp config already absent, leaves the hub, its children and
\* the files as they are and ends no process.
C7_CleanupIdempotent ==
    /\ [](~panicked)
    /\ [][(CleanupStepTaken /\ cleanupDone >= 1 /\ hub # "running"
                            /\ tmpConfig # "present")
            => (/\ hub' = hub
                /\ children' = children
                /\ tmpConfig' = tmpConfig
                /\ pidFile' = pidFile
                /\ exited' = exited
                /\ ~panicked')]_vars

C7_Witness ==
    /\ cleanupDone = 2
    /\ pc["main"] = "ret" /\ pc["handler"] = "exit0"
    /\ hub = "exited" /\ tmpConfig = "removed" /\ ~panicked

\* C8: whenever the supervisor exits after cleanup has run, no pid file is
\* left under the workspace.
C8_PidFileRemovedByCleanup ==
    (exited /\ cleanupDone >= 1 /\ pidFile # "none") => pidFile = "removed"

\* the main flow performs one poll
PollTaken == polls' = polls + 1

\* C9: a poll that finds the threshold unmet and the hub exited ends the
\* supervisor with the hub-exited fatal error, in that very step.
C9_AbortsOnDeadHub ==
    [][(PollTaken /\ hub = "exited" /\ ~IsReady(CountMarkers(log)))
          => (exited' /\ exitBy' = "hubExited")]_vars

\* The poll loop performs at most 30 polls and is left without readiness
\* only after exactly 30 polls and only into the timeout fatal error (or the
\* signal goroutine's exit).
C10_Ceiling ==
    /\ polls <= MaxPolls
    /\ (pc["main"] \notin (PrePollPcs \cup {"poll"}) /\ ~ready)
          => (/\ polls = MaxPolls
              /\ i = MaxPolls
              /\ pc["main"] = "afterLoop"
              /\ exited => exitBy \in {"timeout", "signal"})
    /\ exitBy = "timeout" => (polls = MaxPolls /\ ~ready /\ exitCode = FatalCode)

\* C10: the poll loop performs at most 30 polls; it is left without
\* readiness only after exactly 30 polls and only into the timeout fatal
\* error; and it never runs forever: every fair run reaches readiness or the
\* supervisor's exit.
C10_PollTerminates ==
    /\ []C10_Ceiling
    /\ <>(exited \/ ready)

C10_Witness ==
    exited /\ exitBy = "timeout" /\ polls = MaxPolls /\ CountMarkers(log) = 0

\* the registry entries whose binary is on disk
ExistingEntries ==
    {r \in DOMAIN regFile.plugins : regFile.plugins[r].binary \in pluginBins}

\* the exits through fatal()
FatalExits == {"missingBinary", "createTemp", "openLog", "startHub", "hubExited",
               "timeout", "noAddr"}

C12_AddrVerbatimOrFatal ==
    /\ [](transport # "none"
            => /\ FindAddr(log) \in Addrs
               /\ transportArgs[1] = OrchestratorAddrArg(FindAddr(log)))
    /\ [](exitBy = "noAddr" => (transport = "none" /\ exitCode = 1))
    /\ [][(Extract /\ FindAddr(log) = NoAddr)
             => (exited' /\ exitBy' = "noAddr" /\ orchAddr' = NoAddr)]_vars

C12_Witness ==
    /\ transport = "running"
    /\ log[1].kind = "marker"
    /\ transportArgs[1] = <<"--orchestrator-addr=", "127.0.0.1:54321">>

\* C13: in the end-to-end scenario the supervisor never exits before the
\* transport has run and exited, and it exits 0 when the transport exited 0.
C13_ScenarioReachesTransport ==
    exited => (transport = "exited" /\ (transportCode = 0 => exitCode = 0))

\* C14: once the transport has exited with a code, the supervisor's exit
\* status is that code (0 for 0, the same non-zero code otherwise), and every
\* exit through fatal has status 1.
C14_ExitStatus ==
    /\ (exited /\ transport = "exited" /\ transportCode >= 0)
          => exitCode = transportCode
    /\ (exited /\ exitBy \in FatalExits) => exitCode = 1

C14_Witness ==
    exited /\ transport = "exited" /\ transportCode = 2 /\ exitCode = 2

\* C15: for a registry with N entries whose binary is on disk and M whose
\* binary is missing, the plugin list of the written config has 2 + N
\* entries: storage.markdown, tools.features, then the N existing entries,
\* each enabled, with its id, binary, storage capabilities and the workspace
\* argument; the missing ones are left out and do not end the run.
C15_ConfigHasBuiltinsAndExisting ==
    (tmpConfig # "none" /\ regFile.state # "invalid")
      => /\ Len(cfg) = 2 + Cardinality(ExistingEntries)
         /\ cfg[1].id = Id("storage.markdown")
         /\ cfg[2].id = Id("tools.features")
         /\ {cfg[n] : n \in 3..Len(cfg)}
              = {[id |-> regFile.plugins[r].id,
                  binary |-> regFile.plugins[r].binary,
                  enabled |-> TRUE,
                  providesStorage |-> regFile.plugins[r].providesStorage,
                  args |-> <<WorkspaceArg(AbsWorkspace)>>] : r \in ExistingEntries}

C15_Witness ==
    /\ hub = "running"
    /\ Cardinality(ExistingEntries) = 2
    /\ Cardinality(DOMAIN regFile.plugins \ ExistingEntries) = 1
    /\ Len(cfg) = 4

\* C16: in every written config the two built-in descriptors are present,
\* enabled, and each has the workspace argument in its args.
C16_BuiltinsEnabledWithWorkspace ==
    tmpConfig # "none"
      => /\ Len(cfg) >= 2
         /\ cfg[1].id = Id("storage.markdown")
         /\ cfg[2].id = Id("tools.features")
         /\ \A n \in 1..2 :
               /\ cfg[n].enabled
               /\ \E a \in 1..Len(cfg[n].args) :
                     cfg[n].args[a] = WorkspaceArg(AbsWorkspace)

\* C17: with a sibling binary missing, serve exits through fatal with
\* status 1 at the existence check and has done nothing else: no stale
\* kill, no temp config, no truncation of the log, no hub, no transport.
C17_MissingBinaryFailsFirst ==
    /\ [](~(SiblingBins \subseteq bins)
            => /\ ~staleKilled /\ tmpConfig = "none" /\ ~logTruncated
               /\ hub = "none" /\ transport = "none"
               /\ exited => (exitBy = "missingBinary" /\ exitCode = 1))
    /\ [][(CheckBins /\ ~(SiblingBins \subseteq bins)) => exited']_vars

C17_Witness ==
    /\ exited /\ exitBy = "missingBinary" /\ exitCode = 1
    /\ bins = SiblingBins \ {"transport-stdio"}
    /\ log # <<>>

\* C18: when the registry file is not valid JSON, serve terminates fatally
\* and does not go on with an empty registry: no config is written and no
\* hub is started.
C18_InvalidRegistryStopsServe ==
    regFile.state = "invalid"
      => /\ tmpConfig = "none" /\ hub = "none"
         /\ pc["main"] \in {"checkBins", "killStale", "createTemp"}

\* C19: a registry command whose SaveRegistry failed, at whichever step,
\* leaves the registry file as it was.
C19_FailedSaveKeepsFile ==
    [][lastCmd'.saved \in (SaveOutcomes \ {"ok"}) => regFile' = regFile]_vars

\* C20: no two entries of the registry have the same binary path, and an
\* uninstall removes no binary that an entry still in the registry points to.
C20_BinaryOwnedByOneEntry ==
    /\ [](\A r1, r2 \in DOMAIN regFile.plugins :
            r1 # r2 => regFile.plugins[r1].binary # regFile.plugins[r2].binary)
    /\ [][(RunUninstall /\ regFile'.state = "valid")
            => \A r \in DOMAIN regFile'.plugins :
                  regFile'.plugins[r].binary \in pluginBins
                     => regFile'.plugins[r].binary \in pluginBins']_vars

\* C21: on every exit taken after the transport was spawned, the transport
\* has ended by the time the supervisor exits.
C21_TransportDownOnExit ==
    (exited /\ transport # "none") => transport = "exited"

\* a step of goroutine t out of position p of cleanup
CleanupLeaves(t, p) == pc[t] = p /\ pc'[t] # p

\* C22: cleanup's steps follow one order: with a started hub, SIGTERM to the
\* hub's children, SIGTERM to the hub, the grace period, SIGKILL to the
\* children, SIGKILL to the hub, and the removal of the temp config last;
\* without a started hub the guard leads straight to the removal.  The hub
\* is killed by cleanup only at its kill step and the temp config is removed
\* only at the last step, which every invocation that returns goes through.
C22_CleanupOrder ==
    [][\A t \in Threads :
         /\ CleanupLeaves(t, "cGuard")
               => pc'[t] = IF orchCmd.set /\ orchCmd.process THEN "cPkill" ELSE "cRemove"
         /\ CleanupLeaves(t, "cPkill") => (pc'[t] = "cTerm" /\ hub' = hub)
         /\ CleanupLeaves(t, "cTerm") => (pc'[t] = "cSleep" /\ children' = children)
         /\ CleanupLeaves(t, "cSleep")
               => (pc'[t] = "cPkill9" /\ hub' = hub /\ children' = children)
         /\ CleanupLeaves(t, "cPkill9")
               => (pc'[t] = "cKill" /\ hub' = hub /\ children' # "running")
         /\ CleanupLeaves(t, "cKill") => (pc'[t] = "cRemove" /\ hub' # "running")
         /\ CleanupLeaves(t, "cRemove")
               => (pc'[t] \notin CleanupPcs /\ tmpConfig' # "present")
         /\ (pc[t] \notin CleanupPcs /\ pc'[t] \in CleanupPcs) => pc'[t] = "cGuard"
         /\ (pc[t] \in CleanupPcs /\ pc'[t] \notin CleanupPcs) => pc[t] = "cRemove"
         /\ (pc[t] \in (CleanupPcs \ {"cRemove"}) /\ pc'[t] # pc[t])
               => tmpConfig' = tmpConfig]_vars

C22_Witness ==
    /\ pc["main"] = "ret" /\ cleanupDone = 1 /\ cleanupStarted = 1
    /\ hub = "exited" /\ children = "dead" /\ tmpConfig = "removed"
    /\ transport = "exited"

\* C23: no poll made when the hub has already exited sets ready.
C23_DeadHubNeverReady ==
    [][(Poll /\ hub = "exited") => ~ready']_vars

\* C24: the stale-process kill comes before the temp config and before the
\* hub of this run, so it cannot hit that hub; whether it finds nothing,
\* kills something or fails, the run goes on to the next step and is never
\* ended by it.
C24_StaleKillFirstAndNeverFatal ==
    /\ []((tmpConfig # "none" \/ hub # "none") => staleKilled)
    /\ [](exitBy \notin {"staleKill"})
    /\ [][KillStale => /\ hub = "none" /\ hub' = "none" /\ tmpConfig = "none"
                       /\ ~exited' /\ pc'["main"] = "createTemp"]_vars

C24_Witness ==
    /\ hub = "running" /\ staleKilled /\ otherRun = "running"

\* C25: the hub is started only on a log that this run has truncated.
C25_LogTruncatedBeforeHub ==
    hub # "none" => logTruncated

\* C26: uninstall takes the entry whose repo key is the target and, only
\* when there is none, an entry whose id is the target; with an entry found
\* and the registry saved, the file holds the previous registry minus that
\* entry, whether or not the binary was removed; with no entry found the
\* command ends with status 1 and the file as it was.
C26_UninstallFrame ==
    [][RunUninstall =>
         LET old == LoadRegistry(regFile).plugins
             key == lastCmd'.key
             target == lastCmd'.target
             byRepo == target \in DOMAIN old
             byId == {k \in DOMAIN old : old[k].id = target}
         IN  IF LoadRegistry(regFile).err \/ (~byRepo /\ byId = {})
               THEN lastCmd'.exit = 1 /\ regFile' = regFile /\ key = <<>>
               ELSE /\ IF byRepo THEN key = target ELSE key \in byId
                    /\ lastCmd'.saved = "ok"
                          => /\ lastCmd'.exit = 0
                             /\ regFile'.state = "valid"
                             /\ DOMAIN regFile'.plugins = DOMAIN old \ {key}
                             /\ \A k \in DOMAIN regFile'.plugins :
                                   regFile'.plugins[k] = old[k]]_vars

C26_Witness ==
    /\ lastCmd.cmd = "uninstall" /\ lastCmd.saved = "ok"
    /\ lastCmd.target = <<"github.com", "a", "tool">>
    /\ lastCmd.key = lastCmd.target
    /\ DOMAIN regFile.plugins = {<<"github.com", "b", "tool">>}
    /\ pluginBins # {}

\* the handler has begun cleanup
ShutdownBegun == pc["handler"] \in CleanupPcs \cup {"exit0"}

\* C27: once the handler has begun cleanup, no child process is started, and
\* the main flow does not end the process through fatal while the handler's
\* cleanup is under way.
C27_NoSpawnAfterShutdown ==
    [][ShutdownBegun =>
         /\ (hub = "none" => hub' = "none")
         /\ (transport = "none" => transport' = "none")
         /\ ~(pc["handler"] \in CleanupPcs /\ ~exited /\ exited'
                /\ exitBy' \in FatalExits)]_vars

\* C28: the supervisor exits with status 0 only when the transport was
\* started and exited with status 0.
C28_ZeroOnlyAfterTransportZero ==
    (exited /\ exitCode = 0) => (transport = "exited" /\ transportCode = 0)

\* C29: whenever ready is set, storage.markdown and tools.features have
\* each had their boot logged.
C29_ReadyMeansBuiltinsBooted ==
    ready => {Id("storage.markdown"), Id("tools.features")} \subseteq writers

\* C30: the processes of another serve run of the same installation are
\* never killed by this run.
C30_OtherRunSurvives ==
    otherRun # "killed"
====
